---- MODULE Spec2Model ----
(***************************************************************************)
(* Model of multimodal_bert/datasets/foil_dataset.py: the annotation index *)
(* builder _load_annotations and the class FoilClassificationDataset       *)
(* (__init__, tokenize, __getitem__, __len__).                             *)
(*                                                                         *)
(* Python values carry their type as a tag, so that an operation on a      *)
(* value of the wrong type raises as it does in Python.  Every call        *)
(* yields an outcome: a returned value or a raised exception.              *)
(***************************************************************************)
EXTENDS Integers, Sequences, FiniteSets, TLC

VARIABLES
    annotations,          \* annotations_json["annotations"], the parsed input list
    store,                \* the feature store: image id -> feature array
    _max_caption_length,  \* self._max_caption_length
    _padding_index,       \* self._padding_index
    _entries,             \* self._entries
    _image_ids,           \* self._image_ids
    pc,                   \* position in the object's life cycle
    exc,                  \* the exception __init__ propagated, "none" otherwise
    ret                   \* the outcome of the latest __getitem__ / __len__ call

vars == <<annotations, store, _max_caption_length, _padding_index,
          _entries, _image_ids, pc, exc, ret>>

---------------------------------------------------------------------------
(* Bounds of the model *)

MaxAnnotations == 3
MaxImageId == 2

ImageIds == 1..MaxImageId
Indices == (0 - (MaxImageId + 1))..(MaxImageId + 1)

---------------------------------------------------------------------------
(* Python values and outcomes *)

PyInt(n) == [t |-> "int", v |-> n]
PyStr(s) == [t |-> "str", v |-> s]
PyList(l) == [t |-> "list", v |-> l]
PyDict(d) == [t |-> "dict", v |-> d]
None == [t |-> "NoneType", v |-> <<>>]

Ok(v) == [kind |-> "ok", val |-> v, exc |-> "none"]
Raise(e) == [kind |-> "raise", val |-> None, exc |-> e]

(* obj[key] on a list rejecting every negative index: not what Python does *)
PySubscriptNoNegative(obj, key) ==
    IF obj.t = "dict"
    THEN IF key.t = "str" /\ key.v \in DOMAIN obj.v
         THEN Ok(obj.v[key.v]) ELSE Raise("KeyError")
    ELSE IF obj.t = "list"
    THEN IF key.t # "int" THEN Raise("TypeError")
         ELSE IF 0 <= key.v /\ key.v < Len(obj.v)
         THEN Ok(obj.v[key.v + 1])
         ELSE Raise("IndexError")
    ELSE Raise("TypeError")

(* obj[key]: a dict (a record with string keys) looks the key up; a list   *)
(* takes an int, a negative one counting from the end, and raises          *)
(* IndexError outside [-len, len) and TypeError for a str; an int is not   *)
(* subscriptable.                                                          *)
PySubscript(obj, key) ==
    IF obj.t = "dict"
    THEN IF key.t = "str" /\ key.v \in DOMAIN obj.v
         THEN Ok(obj.v[key.v]) ELSE Raise("KeyError")
    ELSE IF obj.t = "list"
    THEN IF key.t # "int" THEN Raise("TypeError")
         ELSE IF 0 <= key.v /\ key.v < Len(obj.v)
         THEN Ok(obj.v[key.v + 1])
         ELSE IF key.v < 0 /\ 0 - key.v <= Len(obj.v)
         THEN Ok(obj.v[Len(obj.v) + key.v + 1])
         ELSE Raise("IndexError")
    ELSE Raise("TypeError")

(* A Python dict with int keys: its keys in insertion order and its items *)
EmptyDict == [keys |-> <<>>, items |-> [k \in {} |-> <<>>]]
DictHas(d, k) == k \in DOMAIN d.items
DictLen(d) == Len(d.keys)
DictGetItem(d, k) == IF DictHas(d, k) THEN Ok(d.items[k]) ELSE Raise("KeyError")
DictSetItem(d, k, v) ==
    [keys |-> IF DictHas(d, k) THEN d.keys ELSE Append(d.keys, k),
     items |-> [x \in (DOMAIN d.items) \cup {k} |-> IF x = k THEN v ELSE d.items[x]]]

---------------------------------------------------------------------------
(* _load_annotations *)

(* The loop body with the record put in front of the list instead of appended *)
AddAnnotationPrepend(entries, annotation) ==
    LET e1 == IF ~DictHas(entries, annotation.image_id)
              THEN DictSetItem(entries, annotation.image_id, <<>>)
              ELSE entries
    IN  DictSetItem(e1, annotation.image_id,
            <<[caption |-> annotation.caption, foil |-> annotation.foil]>>
                \o e1.items[annotation.image_id])

(* One iteration of the loop over annotations_json["annotations"] *)
AddAnnotation(entries, annotation) ==
    LET e1 == IF ~DictHas(entries, annotation.image_id)
              THEN DictSetItem(entries, annotation.image_id, <<>>)
              ELSE entries
    IN  DictSetItem(e1, annotation.image_id,
            Append(e1.items[annotation.image_id],
                   [caption |-> annotation.caption, foil |-> annotation.foil]))

RECURSIVE LoadFrom(_, _, _)
LoadFrom(anns, k, entries) ==
    IF k > Len(anns) THEN entries
    ELSE LoadFrom(anns, k + 1, AddAnnotation(entries, anns[k]))

_load_annotations(anns) == LoadFrom(anns, 1, EmptyDict)

---------------------------------------------------------------------------
(* The collaborators: the tokenizer with its vocabulary, the feature store *)

Captions == {PyStr("a dog"), PyStr("a zzz dog cat")}

(* self._tokenizer.tokenize(text): the text split into its sub-word tokens *)
TokenizerTokenize(text) ==
    IF text = "a dog" THEN <<"a", "dog">>
    ELSE IF text = "a zzz dog cat" THEN <<"a", "zzz", "dog", "cat">>
    ELSE <<>>

(* tokenizer.vocab: token string -> id; "zzz" is in no vocabulary *)
Vocab == [w \in {"[UNK]", "[CLS]", "[SEP]", "a", "dog", "cat"} |->
            CASE w = "[UNK]" -> 100
              [] w = "[CLS]" -> 101
              [] w = "[SEP]" -> 102
              [] w = "a" -> 1037
              [] w = "dog" -> 3899
              [] w = "cat" -> 4937]

(* The attributes __init__ has set on self when it calls tokenize() *)
SelfAttrs == {"_entries", "_image_features_reader", "_max_caption_length",
              "_tokenizer", "_padding_index"}
GetAttr(name) == IF name \in SelfAttrs THEN Ok(name) ELSE Raise("AttributeError")

(* self._image_features_reader[image_id] *)
ReaderGetItem(reader, image_id) ==
    IF image_id \in DOMAIN reader THEN Ok(reader[image_id]) ELSE Raise("KeyError")

(* torch.tensor(data): a tensor holding a copy of the data *)
TorchTensor(data) == [t |-> "tensor", v |-> data]

---------------------------------------------------------------------------
(* FoilClassificationDataset.tokenize *)

(* obj[key] = value: a dict stores the value under the key; a list takes   *)
(* an int index only and raises TypeError for a str.                       *)
PySetItem(obj, key, value) ==
    IF obj.t = "dict"
    THEN IF key.t = "str"
         THEN Ok(PyDict([k \in (DOMAIN obj.v) \cup {key.v} |->
                            IF k = key.v THEN value ELSE obj.v[k]]))
         ELSE Raise("TypeError")
    ELSE IF obj.t = "list"
    THEN IF key.t # "int" THEN Raise("TypeError")
         ELSE IF 0 <= key.v /\ key.v < Len(obj.v)
         THEN Ok(PyList([obj.v EXCEPT ![key.v + 1] = value]))
         ELSE IF key.v < 0 /\ 0 - key.v <= Len(obj.v)
         THEN Ok(PyList([obj.v EXCEPT ![Len(obj.v) + key.v + 1] = value]))
         ELSE Raise("IndexError")
    ELSE Raise("TypeError")

(* The inner loop: each token's vocabulary id, vocab["[UNK]"] for a token  *)
(* the vocabulary does not hold.                                           *)
VocabIds(sentence_tokens) ==
    [k \in 1..Len(sentence_tokens) |->
        IF sentence_tokens[k] \in DOMAIN Vocab
        THEN Vocab[sentence_tokens[k]]
        ELSE Vocab["[UNK]"]]

(* tokens[: max_len] *)
Truncate(tokens, max_len) ==
    SubSeq(tokens, 1, IF Len(tokens) < max_len THEN Len(tokens) ELSE max_len)

(* One iteration of the loop of tokenize: i is the position enumerate      *)
(* gives, entry is what iterating the dict self._entries gives, one of its *)
(* keys.  The outcome is the first exception a statement of the body       *)
(* raises, or the entries after the assignment of the last line.           *)
TokenizeEntry(entries, i, entry, max_len) ==
    LET caption == PySubscript(entry, PyStr("caption"))
    IN  IF caption.kind = "raise" THEN caption
        ELSE
        LET sentence_tokens ==
                <<"[CLS]">> \o TokenizerTokenize(caption.val.v) \o <<"[SEP]">>
            tokenizer == GetAttr("tokenizer")
        IN  IF tokenizer.kind = "raise" THEN tokenizer
            ELSE
            LET cut == Truncate(VocabIds(sentence_tokens), max_len)
                dictionary == GetAttr("dictionary")
            IN  IF Len(cut) < max_len /\ dictionary.kind = "raise" THEN dictionary
                ELSE
                LET tokens ==
                        IF Len(cut) < max_len
                        THEN [k \in 1..(max_len - Len(cut)) |-> dictionary.val] \o cut
                        ELSE cut
                    target == DictGetItem(entries, i)
                IN  IF target.kind = "raise" THEN target
                    ELSE
                    LET stored == PySetItem(PyList(target.val), PyStr("caption"),
                                            PyList(tokens))
                    IN  IF stored.kind = "raise" THEN stored
                        ELSE Ok(DictSetItem(entries, i, stored.val.v))

RECURSIVE TokenizeFrom(_, _, _)
TokenizeFrom(entries, i, max_len) ==
    IF i >= DictLen(entries) THEN Ok(entries)
    ELSE LET r == TokenizeEntry(entries, i, PyInt(entries.keys[i + 1]), max_len)
         IN  IF r.kind = "raise" THEN r
             ELSE TokenizeFrom(r.val, i + 1, max_len)

(* self.tokenize(): the entries after the pass, or the exception it raised *)
tokenize(entries, max_len) == TokenizeFrom(entries, 0, max_len)

---------------------------------------------------------------------------
(* FoilClassificationDataset.__getitem__ and __len__ *)

(* int(b) of a bool *)
PyIntOfBool(b) == IF b THEN 1 ELSE 0

__getitem__(entries, image_ids, reader, index) ==
    LET image_id == PySubscript(PyList(image_ids), PyInt(index))
    IN  IF image_id.kind = "raise" THEN image_id
        ELSE
        LET entry == DictGetItem(entries, image_id.val)
        IN  IF entry.kind = "raise" THEN entry
            ELSE
            LET read == ReaderGetItem(reader, image_id.val)
            IN  IF read.kind = "raise" THEN read
                ELSE
                LET caption == PySubscript(PyList(entry.val), PyStr("caption"))
                IN  IF caption.kind = "raise" THEN caption
                    ELSE
                    LET foil == PySubscript(PyList(entry.val), PyStr("foil"))
                    IN  IF foil.kind = "raise" THEN foil
                        ELSE Ok(<<TorchTensor(read.val), None,
                                  TorchTensor(caption.val.v),
                                  TorchTensor(PyIntOfBool(foil.val))>>)

RECURSIVE CountRecords(_, _)
CountRecords(entries, k) ==
    IF k > Len(entries.keys) THEN 0
    ELSE Len(entries.items[entries.keys[k]]) + CountRecords(entries, k + 1)

(* A length that counts the annotation records instead of the image ids *)
LenOfRecords(entries) == Ok(CountRecords(entries, 1))

__len__(entries) == Ok(DictLen(entries))

---------------------------------------------------------------------------
(* Inputs *)

CaptionLengths == {4, 5}
PaddingIds == {0, 7}

AnnotationRecords ==
    [image_id : ImageIds, caption : Captions, foil : BOOLEAN, foil_word : {"ORIG"}]

AnnotationLists == UNION {[1..n -> AnnotationRecords] : n \in 0..MaxAnnotations}

(* Feature stores: one holding every image id, one lacking the largest *)
Stores == {[i \in S |-> <<10 * i, 10 * i + 1>>] :
              S \in {ImageIds, ImageIds \ {MaxImageId}}}

NoCall == [op |-> "none", index |-> 0, out |-> Ok(None)]

---------------------------------------------------------------------------
(* The life cycle: __init__, then indexed access *)

Init ==
    /\ annotations \in AnnotationLists
    /\ store \in Stores
    /\ _max_caption_length \in CaptionLengths
    /\ _padding_index \in PaddingIds
    /\ _entries = EmptyDict
    /\ _image_ids = <<>>
    /\ pc = "init"
    /\ exc = "none"
    /\ ret = NoCall

(* self._entries = _load_annotations(annotations_jsonpath) *)
LoadAnnotations ==
    /\ pc = "init"
    /\ _entries' = _load_annotations(annotations)
    /\ pc' = "loaded"
    /\ UNCHANGED <<annotations, store, _max_caption_length, _padding_index,
                   _image_ids, exc, ret>>

(* self.tokenize(): an exception leaves __init__ and no object is built *)
Tokenize ==
    /\ pc = "loaded"
    /\ LET r == tokenize(_entries, _max_caption_length)
       IN  IF r.kind = "raise"
           THEN /\ pc' = "raised"
                /\ exc' = r.exc
                /\ UNCHANGED _entries
           ELSE /\ pc' = "tokenized"
                /\ _entries' = r.val
                /\ UNCHANGED exc
    /\ UNCHANGED <<annotations, store, _max_caption_length, _padding_index,
                   _image_ids, ret>>

(* self._image_ids = list(self._entries.keys()) *)
CaptureImageIds ==
    /\ pc = "tokenized"
    /\ _image_ids' = _entries.keys
    /\ pc' = "ready"
    /\ UNCHANGED <<annotations, store, _max_caption_length, _padding_index,
                   _entries, exc, ret>>

(* A __getitem__ that drops the entry it has served *)
GetDropping ==
    \E index \in Indices :
        /\ pc = "ready"
        /\ ret' = [op |-> "get", index |-> index,
                   out |-> __getitem__(_entries, _image_ids, store, index)]
        /\ _entries' = EmptyDict
        /\ UNCHANGED <<annotations, store, _max_caption_length, _padding_index,
                       _image_ids, pc, exc>>

(* dataset[index] *)
Get ==
    \E index \in Indices :
        /\ pc = "ready"
        /\ ret' = [op |-> "get", index |-> index,
                   out |-> __getitem__(_entries, _image_ids, store, index)]
        /\ UNCHANGED <<annotations, store, _max_caption_length, _padding_index,
                       _entries, _image_ids, pc, exc>>

(* len(dataset) *)
Length ==
    /\ pc = "ready"
    /\ ret' = [op |-> "len", index |-> 0, out |-> __len__(_entries)]
    /\ UNCHANGED <<annotations, store, _max_caption_length, _padding_index,
                   _entries, _image_ids, pc, exc>>

Next == LoadAnnotations \/ Tokenize \/ CaptureImageIds \/ Get \/ Length

Spec == Init /\ [][Next]_vars

---------------------------------------------------------------------------
(* Indexed access on its own.  tokenize() completes no write to            *)
(* self._entries, so the index __getitem__ and __len__ read is the value   *)
(* _load_annotations returned, and self._image_ids is the list of its      *)
(* keys.  The two methods are exercised on every such object, the ones     *)
(* with a non-empty index included, under the constructor's defaults.      *)
(* (In the life cycle above __init__ gets to its last line for the empty   *)
(* annotation list only.)                                                  *)

InitAccess ==
    /\ annotations \in AnnotationLists
    /\ store \in Stores
    /\ _max_caption_length = 20
    /\ _padding_index = 0
    /\ _entries = _load_annotations(annotations)
    /\ _image_ids = _entries.keys
    /\ pc = "ready"
    /\ exc = "none"
    /\ ret = NoCall

NextAccess == Get \/ Length

SpecAccess == InitAccess /\ [][NextAccess]_vars

---------------------------------------------------------------------------
(* Properties *)

(* The annotations of one image id, in input order *)
RecordsOf(anns, id) ==
    LET OfId(a) == a.image_id = id IN SelectSeq(anns, OfId)

(* The caption and foil fields of each record of a list *)
KeptFields(records) ==
    [k \in 1..Len(records) |->
        [caption |-> records[k].caption, foil |-> records[k].foil]]

ImageIdsOf(anns) == {anns[k].image_id : k \in 1..Len(anns)}

(* The tokenize pass has run: it returned or it raised *)
TokenizePassed == pc \in {"tokenized", "ready", "raised"}

(* length() as a caller sees it *)
Length_ == __len__(_entries).val

(* The token strings of a caption between its two markers *)
Wrapped(caption) == <<"[CLS]">> \o TokenizerTokenize(caption.v) \o <<"[SEP]">>

Smaller(a, b) == IF a < b THEN a ELSE b

(* C1: for every well-formed annotation list construct completes without   *)
(* raising, and when it has returned (so before any get call) every        *)
(* annotation record of every image id holds its encoded integer sequence  *)
(* in place of its caption.                                                *)
C1_ConstructCompletesEncoded ==
    /\ pc # "raised"
    /\ pc = "ready" =>
         \A id \in DOMAIN _entries.items :
            \A k \in 1..Len(_entries.items[id]) :
                _entries.items[id][k].caption.t = "list"

C4_BuildIndexGroups ==
    pc = "loaded" =>
        /\ DOMAIN _entries.items = ImageIdsOf(annotations)
        /\ \A id \in DOMAIN _entries.items :
            /\ _entries.items[id] = KeptFields(RecordsOf(annotations, id))
            /\ \A k \in 1..Len(_entries.items[id]) :
                  DOMAIN _entries.items[id][k] = {"caption", "foil"}

C4_Witness ==
    /\ pc = "loaded"
    /\ Len(annotations) = 3
    /\ annotations[1].image_id = 2
    /\ annotations[2].image_id = 2
    /\ annotations[3].image_id = 1
    /\ annotations[1].caption # annotations[2].caption
    /\ Len(_entries.items[2]) = 2
    /\ _entries.items[2][1].caption = annotations[1].caption
    /\ Len(_entries.items[1]) = 1

(* C5: the encode step's output has exactly max_length entries, for every  *)
(* caption whose wrapped token sequence is longer than, as long as, or     *)
(* shorter than max_length.                                                *)
C5_EncodedLengthIsMax ==
    TokenizePassed =>
        \A id \in DOMAIN _entries.items :
            \A k \in 1..Len(_entries.items[id]) :
                /\ _entries.items[id][k].caption.t = "list"
                /\ Len(_entries.items[id][k].caption.v) = _max_caption_length

(* C6: a caption whose wrapped token sequence has n < max_length tokens is *)
(* encoded as max_length - n entries equal to the configured padding id    *)
(* followed by the n vocabulary ids of the wrapped tokens in order.        *)
C6_LeftPadded ==
    TokenizePassed =>
        \A id \in DOMAIN _entries.items :
            \A k \in 1..Len(_entries.items[id]) :
                LET raw == RecordsOf(annotations, id)[k].caption
                    n == Len(Wrapped(raw))
                    enc == _entries.items[id][k].caption
                IN  n < _max_caption_length =>
                        /\ enc.t = "list"
                        /\ Len(enc.v) = _max_caption_length
                        /\ \A j \in 1..(_max_caption_length - n) :
                              enc.v[j] = _padding_index
                        /\ \A j \in 1..n :
                              enc.v[_max_caption_length - n + j]
                                  = VocabIds(Wrapped(raw))[j]

(* C7: encoding maps a token absent from the vocabulary to vocab["[UNK]"]  *)
(* and a token present to its own id, and the lookup does not raise.       *)
C7_UnknownTokenMapped ==
    TokenizePassed =>
        /\ exc = "none"
        /\ \A id \in DOMAIN _entries.items :
            \A k \in 1..Len(_entries.items[id]) :
                LET raw == RecordsOf(annotations, id)[k].caption
                    kept == Smaller(Len(Wrapped(raw)), _max_caption_length)
                    enc == _entries.items[id][k].caption
                IN  /\ enc.t = "list"
                    /\ \A j \in 1..kept :
                          enc.v[Len(enc.v) - kept + j]
                              = IF Wrapped(raw)[j] \in DOMAIN Vocab
                                THEN Vocab[Wrapped(raw)[j]]
                                ELSE Vocab["[UNK]"]

====
